---- MODULE Spec2Model ----
(***************************************************************************)
(* Skill-gap analysis (src/app.py): four read-only tables loaded at start, *)
(* a skill parser, the gap analysis, the duration estimate and the two     *)
(* course recommenders, driven by the POST / handler.                      *)
(*                                                                         *)
(* A Python str is modelled as a sequence of one-character strings.  A     *)
(* table cell that pandas.read_csv loaded from an empty field (NaN) is the *)
(* empty sequence NaN: read_csv never yields the empty str for a cell.     *)
(***************************************************************************)
EXTENDS Integers, Sequences, FiniteSets, TLC

VARIABLES job_details_df, skill_time_df, foundation_df, professional_df,
          call, result

vars == <<job_details_df, skill_time_df, foundation_df, professional_df,
          call, result>>

dfs == <<job_details_df, skill_time_df, foundation_df, professional_df>>

----------------------------------------------------------------------------
(* Bounds of the model *)

MaxTextLen == 4
MaxJobs == 2
MaxDurRows == 2
MaxCourses == 3
MaxMissing == 2
MaxLimit == 2
MaxHpd == 3

----------------------------------------------------------------------------
(* Strings *)

NaN == <<>>

None == <<>>

Some(v) == <<v>>

SeqsUpTo(S, n) == UNION {[1..k -> S] : k \in 0..n}

Range(s) == {s[i] : i \in 1..Len(s)}

Take(s, k) == SubSeq(s, 1, IF k < Len(s) THEN k ELSE Len(s))

\* str.lower() on one character
LowerCh(c) == CASE c = "A" -> "a"
                [] c = "B" -> "b"
                [] OTHER -> c

\* str.lower()
lower(s) == [i \in 1..Len(s) |-> LowerCh(s[i])]

IsSpace(c) == c = " "

RECURSIVE lstrip(_)
lstrip(s) == IF s # <<>> /\ IsSpace(Head(s)) THEN lstrip(Tail(s)) ELSE s

RECURSIVE rstrip(_)
rstrip(s) == IF s # <<>> /\ IsSpace(s[Len(s)])
             THEN rstrip(SubSeq(s, 1, Len(s) - 1)) ELSE s

\* str.strip()
strip(s) == rstrip(lstrip(s))

\* index of the first "," of s, 0 when there is none
RECURSIVE FirstComma(_, _)
FirstComma(s, i) == IF i > Len(s) THEN 0
                    ELSE IF s[i] = "," THEN i ELSE FirstComma(s, i + 1)

\* str.split(","): always at least one piece, empty pieces kept
RECURSIVE split(_)
split(s) == LET c == FirstComma(s, 1)
            IN IF c = 0 THEN <<s>>
               ELSE <<SubSeq(s, 1, c - 1)>> \o split(SubSeq(s, c + 1, Len(s)))

\* Python's `sub in s` on two str
Substring(sub, s) == \E i \in 1..(Len(s) - Len(sub) + 1) :
                        SubSeq(s, i, i + Len(sub) - 1) = sub

\* re.search(pat, s) for a pattern of literal characters and ".", which is
\* what pandas' Series.str.contains(pat) computes with its default regex=True
re_search(pat, s) == \E i \in 1..(Len(s) - Len(pat) + 1) :
                        \A k \in 1..Len(pat) :
                           pat[k] = "." \/ pat[k] = s[i + k - 1]

\* Series.str.contains(pat, na=False) on one cell
str_contains(cell, pat) == cell # NaN /\ re_search(pat, cell)

\* (Series.str.lower() == other) on one cell
str_lower_eq(cell, other) == cell # NaN /\ lower(cell) = other

----------------------------------------------------------------------------
(* Utility *)

parse_skills(skill_text) ==
    IF skill_text = NaN \/ strip(skill_text) = <<>>
    THEN <<>>
    ELSE LET pieces == split(skill_text)
         IN [i \in 1..Len(pieces) |-> lower(strip(pieces[i]))]

----------------------------------------------------------------------------
(* Gap analysis *)

\* positional indices of the rows of job_details_df the exact comparison keeps
exact_rows(target_job) ==
    {i \in 1..Len(job_details_df) :
        str_lower_eq(job_details_df[i].title, lower(target_job))}

\* positional indices of the rows the partial-match fallback keeps
partial_rows(target_job) ==
    {i \in 1..Len(job_details_df) :
        /\ job_details_df[i].title # NaN
        /\ str_contains(lower(job_details_df[i].title), lower(target_job))}

\* job_row after both selections (a set of positional indices)
job_rows(target_job) ==
    IF exact_rows(target_job) # {} THEN exact_rows(target_job)
    ELSE partial_rows(target_job)

\* DataFrame.iloc[0]: the first kept row in the table's order
iloc0(rows) == CHOOSE i \in rows : \A j \in rows : i <= j

RECURSIVE Filter(_, _)
Filter(s, keep) == IF s = <<>> THEN <<>>
                   ELSE (IF Head(s) \in keep THEN <<Head(s)>> ELSE <<>>)
                        \o Filter(Tail(s), keep)

RECURSIVE FilterOut(_, _)
FilterOut(s, drop) == IF s = <<>> THEN <<>>
                      ELSE (IF Head(s) \notin drop THEN <<Head(s)>> ELSE <<>>)
                           \o FilterOut(Tail(s), drop)

missing_of(required_skills, user_skills) ==
    FilterOut(required_skills, Range(user_skills))

matched_of_by_user(required_skills, user_skills) ==
    Filter(user_skills, Range(required_skills))

matched_of(required_skills, user_skills) ==
    Filter(required_skills, Range(user_skills))

\* The four returned values, plus row: the positional index of the chosen
\* row (0 for the None result), which the code does not return.
find_missing_skills(target_job, current_skills) ==
    LET rows == job_rows(target_job)
    IN IF rows = {}
       THEN [found |-> FALSE, row |-> 0, job_id |-> None,
             required |-> <<>>, matched |-> <<>>, missing |-> <<>>]
       ELSE LET job_row == job_details_df[iloc0(rows)]
                required_skills == parse_skills(job_row.skills)
                user_skills == parse_skills(current_skills)
            IN [found |-> TRUE, row |-> iloc0(rows), job_id |-> job_row.title,
                required |-> required_skills,
                matched |-> matched_of(required_skills, user_skills),
                missing |-> missing_of(required_skills, user_skills)]

----------------------------------------------------------------------------
(* Duration estimate *)

duration_rows_case_sensitive(skill) ==
    {i \in 1..Len(skill_time_df) : skill_time_df[i].name = lower(skill)}

\* positional indices of the rows of skill_time_df kept for one skill
duration_rows(skill) ==
    {i \in 1..Len(skill_time_df) :
        str_lower_eq(skill_time_df[i].name, lower(skill))}

\* the hours the loop body takes for one skill: None, or Some(hours)
hours_of(skill) ==
    IF duration_rows(skill) # {}
    THEN Some(skill_time_df[iloc0(duration_rows(skill))].hours)
    ELSE None

RECURSIVE sum_hours(_)
sum_hours(missing_skills) ==
    IF missing_skills = <<>> THEN 0
    ELSE (IF hours_of(Head(missing_skills)) # None
          THEN hours_of(Head(missing_skills))[1] ELSE 0)
         + sum_hours(Tail(missing_skills))

\* round(n / d, 1) for n >= 0 and d > 0, in tenths: round() rounds a float
\* to the nearest tenth, and a float that lies exactly half way (n / d with
\* d a multiple of 4 below 20 is exact in binary) to the even tenth
round1_x10(n, d) ==
    LET q == (10 * n) \div d
        r == (10 * n) % d
    IN IF 2 * r < d THEN q
       ELSE IF 2 * r > d THEN q + 1
       ELSE IF q % 2 = 0 THEN q ELSE q + 1

\* total_days is returned in tenths of a day; total_hours is the loop's
\* running total, which the code does not return
calculate_total_duration(missing_skills, hours_per_day) ==
    LET total_hours == sum_hours(missing_skills)
        skill_hours == [s \in Range(missing_skills) |-> hours_of(s)]
    IN [total_days_x10 |-> IF hours_per_day > 0
                           THEN round1_x10(total_hours, hours_per_day)
                           ELSE round1_x10(total_hours, 1),
        skill_hours |-> skill_hours,
        total_hours |-> total_hours]

----------------------------------------------------------------------------
(* Course recommendation *)

\* The program constants: the default limit and the default hours per day
DefaultLimit == 4

DefaultHoursPerDay == 2

is_candidate_by_token(skills, missing_skills) ==
    \E k \in 1..Len(missing_skills) :
        lower(missing_skills[k]) \in Range(parse_skills(skills))

\* the filter's lambda on one cell of the "skills" column
is_candidate(skills, missing_skills) ==
    \E k \in 1..Len(missing_skills) :
        Substring(lower(missing_skills[k]), lower(skills))

\* positional indices of the rows of a course table the filter keeps
filtered(df, missing_skills) ==
    {i \in 1..Len(df) : is_candidate(df[i].skills, missing_skills)}

covered_skills(skills, missing_skills) ==
    Filter(missing_skills, Range(parse_skills(skills)))

\* Python's > on two tuples of integers of the same length
RECURSIVE tuple_gt(_, _)
tuple_gt(a, b) ==
    IF a = <<>> THEN FALSE
    ELSE IF Head(a) # Head(b) THEN Head(a) > Head(b)
    ELSE tuple_gt(Tail(a), Tail(b))

\* where list.sort(reverse=True) puts an element that follows, in the
\* original order, the elements already placed in done: after every element
\* whose key is not smaller (the sort is stable, also when reversed)
insert_at_unstable(key, done) ==
    Cardinality({i \in 1..Len(done) : tuple_gt(done[i].key, key)})

insert_at(key, done) ==
    Cardinality({i \in 1..Len(done) : ~tuple_gt(key, done[i].key)})

\* list.sort(key=..., reverse=True) on a list of [key, item] pairs
RECURSIVE sort_reverse(_, _)
sort_reverse(todo, done) ==
    IF todo = <<>> THEN done
    ELSE LET p == insert_at(Head(todo).key, done)
         IN sort_reverse(Tail(todo),
                         SubSeq(done, 1, p) \o <<Head(todo)>>
                         \o SubSeq(done, p + 1, Len(done)))

slice_off_by_one(s, limit) == Take(s, limit + 1)

\* s[:limit]
slice(s, limit) ==
    IF limit >= 0 THEN Take(s, limit)
    ELSE Take(s, IF Len(s) + limit > 0 THEN Len(s) + limit ELSE 0)

\* the rows of df the loop visits, in the table's order
RECURSIVE rows_in_order(_, _)
rows_in_order(keep, i) ==
    IF keep = {} THEN <<>>
    ELSE IF i \in keep THEN <<i>> \o rows_in_order(keep \ {i}, i + 1)
    ELSE rows_in_order(keep, i + 1)

\* One recommended course.  row is the positional index of the course in its
\* table and stands for the fields copied unchanged (title, link, provider,
\* platform, credential, duration).
professional_course(i, missing_skills) ==
    LET covered == covered_skills(professional_df[i].skills, missing_skills)
    IN [row |-> i, covered_skills |-> covered, total_covered |-> Len(covered)]

foundation_course(i, missing_skills) ==
    LET covered == covered_skills(foundation_df[i].skills, missing_skills)
    IN [row |-> i, rating |-> foundation_df[i].rating,
        covered_skills |-> covered, total_covered |-> Len(covered)]

professional_key(c) == <<c.total_covered>>

foundation_key_no_rating(c) == <<c.total_covered>>

foundation_key(c) == <<c.total_covered, c.rating>>

suggest_professional_courses(missing_skills, limit) ==
    IF missing_skills = <<>> THEN <<>>
    ELSE LET order == rows_in_order(filtered(professional_df, missing_skills), 1)
             updated_courses ==
                 [n \in 1..Len(order) |->
                    LET c == professional_course(order[n], missing_skills)
                    IN [key |-> professional_key(c), item |-> c]]
             sorted == sort_reverse(updated_courses, <<>>)
         IN slice([n \in 1..Len(sorted) |-> sorted[n].item], limit)

suggest_foundation_courses(missing_skills, limit) ==
    IF missing_skills = <<>> THEN <<>>
    ELSE LET order == rows_in_order(filtered(foundation_df, missing_skills), 1)
             updated_courses ==
                 [n \in 1..Len(order) |->
                    LET c == foundation_course(order[n], missing_skills)
                    IN [key |-> foundation_key(c), item |-> c]]
             sorted == sort_reverse(updated_courses, <<>>)
         IN slice([n \in 1..Len(sorted) |-> sorted[n].item], limit)

----------------------------------------------------------------------------
(* Routes *)

JobNotFound == "Job not found in file database."

\* POST /: fields target_job, current_skills and hours_per_day, the last one
\* None when the form does not send it.  calls lists the functions the
\* handler ran, in order.
index_post(target_job, current_skills, hours_field) ==
    LET hours_per_day == IF hours_field = None THEN DefaultHoursPerDay
                         ELSE hours_field[1]
        gap == find_missing_skills(target_job, current_skills)
    IN IF gap.required = <<>>
       THEN [kind |-> "error", error |-> JobNotFound,
             calls |-> <<"find_missing_skills">>]
       ELSE LET duration == calculate_total_duration(gap.missing, hours_per_day)
            IN [kind |-> "result",
                target_job |-> target_job,
                required |-> gap.required,
                matched |-> gap.matched,
                missing |-> gap.missing,
                total_days_x10 |-> duration.total_days_x10,
                skill_hours |-> duration.skill_hours,
                total_hours |-> duration.total_hours,
                hours_per_day |-> hours_per_day,
                professional_courses |->
                    suggest_professional_courses(gap.missing, DefaultLimit),
                foundation_courses |->
                    suggest_foundation_courses(gap.missing, DefaultLimit),
                calls |-> <<"find_missing_skills", "calculate_total_duration",
                            "suggest_professional_courses",
                            "suggest_foundation_courses">>]

----------------------------------------------------------------------------
(* The tables and the inputs the model draws from *)

TextAlphabet == {"a", "B", ",", " "}

Texts == SeqsUpTo(TextAlphabet, MaxTextLen)

\* "Job Title" cells: "a", "Ab", "b.", "ba".  The key columns are populated:
\* a column of empty cells only is not a column of str, and has no .str
TitlePool == {<<"a">>, <<"A", "b">>, <<"b", ".">>, <<"b", "a">>}

\* "Skill Requirements" cells: "a,b", "B, a,a", "a,,b", and an empty cell
RequirementPool == {<<"a", ",", "b">>,
                    <<"B", ",", " ", "a", ",", "a">>,
                    <<"a", ",", ",", "b">>,
                    NaN}

JobTables ==
    SeqsUpTo([title : TitlePool, skills : RequirementPool], MaxJobs)

\* target_job fields: "", "a", "A", "b", "ab", "bb", ".", "a."
TargetPool == {<<>>, <<"a">>, <<"A">>, <<"b">>, <<"a", "b">>, <<"b", "b">>,
               <<".">>, <<"a", ".">>}

\* current_skills fields: "", "a", " A,b", ","
CurrentPool == {<<>>, <<"a">>, <<" ", "A", ",", "b">>, <<",">>}

\* "Skill Name" cells: "a", "A", "b", "ab"
SkillNamePool == {<<"a">>, <<"A">>, <<"b">>, <<"a", "b">>}

HoursPool == {1, 2}

DurationTables ==
    SeqsUpTo([name : SkillNamePool, hours : HoursPool], MaxDurRows)

\* skills handed to calculate_total_duration: "a", "B", ""
MissingForDuration == SeqsUpTo({<<"a">>, <<"B">>, <<>>}, MaxMissing)

HoursPerDayPool == (0 - 1)..MaxHpd

\* "skills" cells of a course: "a,b", "ab", "B ,a"
CourseSkillsPool == {<<"a", ",", "b">>, <<"a", "b">>,
                     <<"B", " ", ",", "a">>}

RatingPool == {1, 2}

FoundationTables ==
    SeqsUpTo([skills : CourseSkillsPool, rating : RatingPool], MaxCourses)

\* missing-skill lists handed to the recommenders
MissingForCourses == {<<>>, <<<<"a">>>>, <<<<"b">>>>, <<<<"A">>>>, <<<<>>>>,
                      <<<<"a">>, <<"b">>>>, <<<<"b">>, <<"a">>>>,
                      <<<<"a">>, <<"a">>>>}

LimitPool == 0..MaxLimit

\* one table of each kind, for the specifications that do not vary it
SomeJobs == <<[title |-> <<"A", "b">>, skills |-> <<"a", ",", "b">>]>>

SomeDurations == <<[name |-> <<"A">>, hours |-> 1],
                   [name |-> <<"b">>, hours |-> 2]>>

SomeFoundation == <<[skills |-> <<"a", "b">>, rating |-> 2],
                    [skills |-> <<"b", " ", ",", "a">>, rating |-> 1]>>

\* the professional table has the foundation table's columns but "rating"
without_rating(df) == [i \in 1..Len(df) |-> [skills |-> df[i].skills]]

NoCall == [op |-> "none"]

----------------------------------------------------------------------------
(* The state after the four tables are loaded *)

InitParse ==
    /\ job_details_df = SomeJobs
    /\ skill_time_df = SomeDurations
    /\ foundation_df = SomeFoundation
    /\ professional_df = without_rating(SomeFoundation)
    /\ call = NoCall
    /\ result = NoCall

InitGap ==
    /\ job_details_df \in JobTables
    /\ skill_time_df = SomeDurations
    /\ foundation_df = SomeFoundation
    /\ professional_df = without_rating(SomeFoundation)
    /\ call = NoCall
    /\ result = NoCall

InitDuration ==
    /\ job_details_df = SomeJobs
    /\ skill_time_df \in DurationTables
    /\ foundation_df = SomeFoundation
    /\ professional_df = without_rating(SomeFoundation)
    /\ call = NoCall
    /\ result = NoCall

\* Each recommender reads its own table only, so the two tables are drawn
\* together: every professional table within the bound occurs.
InitCourses ==
    /\ job_details_df = SomeJobs
    /\ skill_time_df = SomeDurations
    /\ foundation_df \in FoundationTables
    /\ professional_df = without_rating(foundation_df)
    /\ call = NoCall
    /\ result = NoCall

Init ==
    /\ job_details_df \in JobTables
    /\ skill_time_df \in {SomeDurations, <<>>}
    /\ foundation_df = SomeFoundation
    /\ professional_df = without_rating(SomeFoundation)
    /\ call = NoCall
    /\ result = NoCall

----------------------------------------------------------------------------
(* One action per function called and per request handled.  A call runs to  *)
(* completion, and the values it made are dropped before the next one.     *)

Idle == call.op = "none"

\* the caller is done with the returned value (a response has been rendered)
Return ==
    /\ ~Idle
    /\ call' = NoCall
    /\ result' = NoCall
    /\ UNCHANGED dfs

CallParseSkills(skill_text) ==
    /\ Idle
    /\ call' = [op |-> "parse_skills", skill_text |-> skill_text]
    /\ result' = parse_skills(skill_text)
    /\ UNCHANGED dfs

CallFindMissingSkills(target_job, current_skills) ==
    /\ Idle
    /\ call' = [op |-> "find_missing_skills", target_job |-> target_job,
                current_skills |-> current_skills]
    /\ result' = find_missing_skills(target_job, current_skills)
    /\ UNCHANGED dfs

CallCalculateTotalDuration(missing_skills, hours_per_day) ==
    /\ Idle
    /\ call' = [op |-> "calculate_total_duration",
                missing_skills |-> missing_skills,
                hours_per_day |-> hours_per_day]
    /\ result' = calculate_total_duration(missing_skills, hours_per_day)
    /\ UNCHANGED dfs

CallSuggestProfessionalCourses(missing_skills, limit) ==
    /\ Idle
    /\ call' = [op |-> "suggest_professional_courses",
                missing_skills |-> missing_skills, limit |-> limit]
    /\ result' = suggest_professional_courses(missing_skills, limit)
    /\ UNCHANGED dfs

CallSuggestFoundationCourses(missing_skills, limit) ==
    /\ Idle
    /\ call' = [op |-> "suggest_foundation_courses",
                missing_skills |-> missing_skills, limit |-> limit]
    /\ result' = suggest_foundation_courses(missing_skills, limit)
    /\ UNCHANGED dfs

IndexGet ==
    /\ Idle
    /\ call' = [op |-> "GET /"]
    /\ result' = [kind |-> "form"]
    /\ UNCHANGED dfs

IndexPost(target_job, current_skills, hours_field) ==
    /\ Idle
    /\ call' = [op |-> "POST /", target_job |-> target_job,
                current_skills |-> current_skills,
                hours_field |-> hours_field]
    /\ result' = index_post(target_job, current_skills, hours_field)
    /\ UNCHANGED dfs

NextParse ==
    \/ \E skill_text \in Texts : CallParseSkills(skill_text)
    \/ Return

NextGap ==
    \/ \E target_job \in TargetPool, current_skills \in CurrentPool :
          CallFindMissingSkills(target_job, current_skills)
    \/ Return

NextDuration ==
    \/ \E missing_skills \in MissingForDuration,
          hours_per_day \in HoursPerDayPool :
          CallCalculateTotalDuration(missing_skills, hours_per_day)
    \/ Return

NextCourses ==
    \/ \E missing_skills \in MissingForCourses, limit \in LimitPool :
          \/ CallSuggestProfessionalCourses(missing_skills, limit)
          \/ CallSuggestFoundationCourses(missing_skills, limit)
    \/ Return

Next ==
    \/ IndexGet
    \/ \E target_job \in TargetPool, current_skills \in CurrentPool,
          hours_field \in {None, Some(0), Some(3)} :
          IndexPost(target_job, current_skills, hours_field)
    \/ Return

SpecParse == InitParse /\ [][NextParse]_vars

SpecGap == InitGap /\ [][NextGap]_vars

SpecDuration == InitDuration /\ [][NextDuration]_vars

SpecCourses == InitCourses /\ [][NextCourses]_vars

Spec == Init /\ [][Next]_vars

----------------------------------------------------------------------------
(* Properties *)

RECURSIVE IsSubsequence(_, _)
IsSubsequence(a, b) ==
    IF a = <<>> THEN TRUE
    ELSE IF b = <<>> THEN FALSE
    ELSE IF Head(a) = Head(b) THEN IsSubsequence(Tail(a), Tail(b))
    ELSE IsSubsequence(a, Tail(b))

Min(S) == CHOOSE i \in S : \A j \in S : i <= j

RECURSIVE SumOver(_, _)
SumOver(f, S) ==
    IF S = {} THEN 0
    ELSE LET x == CHOOSE y \in S : TRUE
         IN f[x] + SumOver(f, S \ {x})

\* rows of the jobs table whose title equals t when both are lower-cased
TitlesEqual(t) ==
    {i \in 1..Len(job_details_df) :
        /\ job_details_df[i].title # NaN
        /\ lower(job_details_df[i].title) = lower(t)}

\* rows of the jobs table whose lower-cased title has lower-cased t as a
\* plain substring
TitlesContaining(t) ==
    {i \in 1..Len(job_details_df) :
        /\ job_details_df[i].title # NaN
        /\ Substring(lower(t), lower(job_details_df[i].title))}

(* C1: whenever find_missing_skills resolves a job, matched and missing    *)
(* partition required as sets, are disjoint, and each is a subsequence of  *)
(* required.                                                               *)
C1_Partition ==
    (call.op = "find_missing_skills" /\ result.found) =>
        /\ Range(result.matched) \cup Range(result.missing)
              = Range(result.required)
        /\ Range(result.matched) \cap Range(result.missing) = {}
        /\ IsSubsequence(result.matched, result.required)
        /\ IsSubsequence(result.missing, result.required)

\* a resolved job with three required skills, some matched and some missing
C1_Witness ==
    /\ call.op = "find_missing_skills"
    /\ result.found
    /\ Len(result.required) = 3
    /\ result.matched # <<>>
    /\ result.missing # <<>>

(* C2: if some title equals target_job case-insensitively the first such   *)
(* row is returned; otherwise a returned row is the first row whose        *)
(* lower-cased title contains the lower-cased target_job as a substring.   *)
C2_LookupDeterminism ==
    call.op = "find_missing_skills" =>
        LET exact == TitlesEqual(call.target_job)
            containing == TitlesContaining(call.target_job)
        IN /\ exact # {} => result.found /\ result.row = Min(exact)
           /\ (exact = {} /\ containing # {}) =>
                 result.found /\ result.row = Min(containing)
           /\ (exact = {} /\ result.found) =>
                 containing # {} /\ result.row = Min(containing)

(* C3: POST / answers with the error payload exactly when no title equals  *)
(* target_job and none contains it as a substring; otherwise with a result *)
(* payload; and on the error path only find_missing_skills has run.        *)
C3_NotFoundIffNoMatch ==
    call.op = "POST /" =>
        LET nomatch == /\ TitlesEqual(call.target_job) = {}
                       /\ TitlesContaining(call.target_job) = {}
        IN /\ (result.kind = "error") <=> nomatch
           /\ ~nomatch => result.kind = "result"
           /\ result.kind = "error" =>
                 /\ result.error = JobNotFound
                 /\ result.calls = <<"find_missing_skills">>

(* C4: no element of the sequence parse_skills returns is the empty        *)
(* string.                                                                 *)
C4_NoEmptyToken ==
    call.op = "parse_skills" =>
        \A i \in 1..Len(result) : result[i] # <<>>

\* the table a recommender call reads
TableOf(op) ==
    IF op = "suggest_professional_courses" THEN professional_df
    ELSE foundation_df

IsSuggest == call.op \in {"suggest_professional_courses",
                          "suggest_foundation_courses"}

\* rows whose lower-cased skills text has a lower-cased missing skill as a
\* plain substring
Containing(df, missing) ==
    {i \in 1..Len(df) :
        \E k \in 1..Len(missing) :
            Substring(lower(missing[k]), lower(df[i].skills))}

\* the missing skills, in their order, that equal a parsed token of row i
CoveredBy(df, i, missing) ==
    LET tokens == Range(parse_skills(df[i].skills))
        at == {k \in 1..Len(missing) : missing[k] \in tokens}
        nth[n \in 0..Len(missing)] ==
            IF n = 0 THEN 0
            ELSE Min({k \in at : k > nth[n - 1]} \cup {Len(missing) + 1})
    IN [n \in 1..Cardinality(at) |-> missing[nth[n]]]

RowsOf(courses) == {courses[n].row : n \in 1..Len(courses)}

PositionOf(courses, i) == CHOOSE n \in 1..Len(courses) : courses[n].row = i

\* (c1, r1) >= (c2, r2) lexicographically
PairGE(c1, r1, c2, r2) == c1 > c2 \/ (c1 = c2 /\ r1 >= r2)

(* C5: both recommenders return at most limit courses for every limit >= 0 *)
(* and return the empty sequence for an empty missing-skill sequence.      *)
C5_RecommendationCap ==
    IsSuggest =>
        /\ call.limit >= 0 => Len(result) <= call.limit
        /\ call.missing_skills = <<>> => result = <<>>

\* a call whose candidates outnumber a positive limit
C5_Witness ==
    /\ call.op = "suggest_foundation_courses"
    /\ call.limit >= 1
    /\ Len(result) = call.limit
    /\ Cardinality(Containing(foundation_df, call.missing_skills)) > call.limit

C7_ProfessionalStable ==
    (call.op = "suggest_professional_courses" /\ call.missing_skills # <<>>) =>
        LET missing == call.missing_skills
            cand == Containing(professional_df, missing)
            cov(i) == Len(CoveredBy(professional_df, i, missing))
        IN \A a, b \in cand :
              (a < b /\ cov(a) = cov(b) /\ b \in RowsOf(result)) =>
                  /\ a \in RowsOf(result)
                  /\ PositionOf(result, a) < PositionOf(result, b)

\* two tied courses returned, a third tied course truncated away
C7_Witness ==
    /\ call.op = "suggest_professional_courses"
    /\ Len(result) = 2
    /\ result[1].total_covered = result[2].total_covered
    /\ \E i \in Containing(professional_df, call.missing_skills) :
          /\ i \notin RowsOf(result)
          /\ Len(CoveredBy(professional_df, i, call.missing_skills))
                = result[2].total_covered

\* x10 is round(n / d, 1) in tenths, for d > 0: the nearest tenth, and the
\* even one of two equally near
IsRounded(x10, n, d) ==
    LET diff == x10 * d - 10 * n
        dist == IF diff >= 0 THEN diff ELSE 0 - diff
    IN /\ 2 * dist <= d
       /\ 2 * dist = d => x10 % 2 = 0

\* hours of the first row of skill_time_df whose name equals the skill
\* case-insensitively, as None or Some(hours)
FirstHours(skill) ==
    LET rows == {i \in 1..Len(skill_time_df) :
                    /\ skill_time_df[i].name # NaN
                    /\ lower(skill_time_df[i].name) = lower(skill)}
    IN IF rows = {} THEN None ELSE Some(skill_time_df[Min(rows)].hours)

\* the total over the sequence: 0 for None
HoursTotal(missing) ==
    LET h == [k \in 1..Len(missing) |->
                 IF FirstHours(missing[k]) = None THEN 0
                 ELSE FirstHours(missing[k])[1]]
    IN SumOver(h, 1..Len(missing))

\* what C8 says of the per-skill records and of the running total
PerSkillHours ==
    /\ DOMAIN result.skill_hours = Range(call.missing_skills)
    /\ \A s \in Range(call.missing_skills) :
          result.skill_hours[s] = FirstHours(s)
    /\ result.total_hours = HoursTotal(call.missing_skills)

(* C8 as stated: each missing skill is recorded with the hours of its      *)
(* first case-insensitively equal row, or null; the total adds those       *)
(* hours; and the returned total is totalHours / hours_per_day when        *)
(* hours_per_day > 0 and totalHours otherwise.                             *)
C8_ExactQuotient ==
    call.op = "calculate_total_duration" =>
        /\ PerSkillHours
        /\ IF call.hours_per_day > 0
           THEN result.total_days_x10 * call.hours_per_day
                   = 10 * result.total_hours
           ELSE result.total_days_x10 = 10 * result.total_hours

(* C8 amended: as C8, but the returned total is totalHours / hours_per_day *)
(* rounded to one decimal place when hours_per_day > 0, and totalHours     *)
(* when hours_per_day <= 0.                                                *)
C8_RoundedQuotient ==
    call.op = "calculate_total_duration" =>
        /\ PerSkillHours
        /\ IF call.hours_per_day > 0
           THEN IsRounded(result.total_days_x10, result.total_hours,
                          call.hours_per_day)
           ELSE result.total_days_x10 = 10 * result.total_hours

\* a skill with hours under a name of another case, a skill without a row,
\* and a quotient that is not a whole number of tenths
C8_Witness ==
    /\ call.op = "calculate_total_duration"
    /\ call.hours_per_day = 3
    /\ result.total_hours % 3 # 0
    /\ \E s \in Range(call.missing_skills) : result.skill_hours[s] = None
    /\ \E s \in Range(call.missing_skills) :
          /\ result.skill_hours[s] # None
          /\ \A i \in 1..Len(skill_time_df) : skill_time_df[i].name # s

(* C9: the candidates are exactly the courses whose lower-cased skills     *)
(* text contains a missing skill as a substring; covered_skills is the     *)
(* missing skills, in order, that equal a parsed token of the course; and  *)
(* a candidate with total_covered = 0 is returned, after every candidate   *)
(* with total_covered >= 1, whenever fewer than limit candidates outrank   *)
(* it.                                                                     *)
C9_TwoPass ==
    (IsSuggest /\ call.missing_skills # <<>>) =>
        LET df == TableOf(call.op)
            missing == call.missing_skills
            cand == Containing(df, missing)
            cov(i) == Len(CoveredBy(df, i, missing))
            rating(i) == IF call.op = "suggest_foundation_courses"
                         THEN df[i].rating ELSE 0
            outranks(j, i) ==
                \/ ~PairGE(cov(i), rating(i), cov(j), rating(j))
                \/ (cov(i) = cov(j) /\ rating(i) = rating(j) /\ j < i)
        IN /\ RowsOf(result) \subseteq cand
           /\ Cardinality(RowsOf(result)) = Len(result)
           /\ Len(result) = IF Cardinality(cand) < call.limit
                            THEN Cardinality(cand) ELSE call.limit
           /\ \A n \in 1..Len(result) :
                 /\ result[n].covered_skills
                       = CoveredBy(df, result[n].row, missing)
                 /\ result[n].total_covered = Len(result[n].covered_skills)
           /\ \A n, m \in 1..Len(result) :
                 (result[n].total_covered = 0 /\ result[m].total_covered >= 1)
                    => m < n
           /\ (\E n \in 1..Len(result) : result[n].total_covered = 0) =>
                 {i \in cand : cov(i) >= 1} \subseteq RowsOf(result)
           /\ \A i \in cand :
                 (/\ cov(i) = 0
                  /\ Cardinality({j \in cand : outranks(j, i)}) < call.limit)
                     => i \in RowsOf(result)

\* a course that matches only inside a larger token, returned with
\* total_covered = 0 after a course that covers a skill
C9_Witness ==
    /\ IsSuggest
    /\ Len(result) >= 2
    /\ result[1].total_covered >= 1
    /\ \E n \in 2..Len(result) :
          /\ result[n].total_covered = 0
          /\ result[n].covered_skills = <<>>

(* C10: the total hours that are divided by hours_per_day equal the sum of *)
(* the non-null hours of the skill_hours mapping of the same response.     *)
C10_TotalMatchesBreakdown ==
    (call.op = "POST /" /\ result.kind = "result") =>
        LET shown == [s \in DOMAIN result.skill_hours |->
                         IF result.skill_hours[s] = None THEN 0
                         ELSE result.skill_hours[s][1]]
        IN result.total_hours = SumOver(shown, DOMAIN result.skill_hours)

====
